---- MODULE Spec2Model ----
(***************************************************************************)
(* Allure-telephony dashboard.                                             *)
(*                                                                         *)
(* Spec        the client-side cache of ReportsProvider                    *)
(*             (ReportsContext.jsx): get, clear, and the fetches of        *)
(*             /api/reports in flight.                                     *)
(* SpecSession the application as wired: login page, protected routes,     *)
(*             side panel and logout, with the pages calling the cache.    *)
(* SpecSummary one run read on its own: fetchSummary on the server,        *)
(*             fetchRunResults and the viewer's summary in the browser.    *)
(* SpecCatalog one GET /api/reports: listAllReports over the runs of the   *)
(*             object store, calling fetchSummary for each.                *)
(* SpecCompare generateComparison of CompareReports applied to two catalog *)
(*             entries, and the rows of its detail table.                  *)
(* SpecDownload one GET /api/download-report/:runId: the listing, the      *)
(*             per-file reads in any completion order, the archive.        *)
(* SpecLogin   one POST /login.                                            *)
(* SpecAuth    POST /login, POST /debug/token and GET /dashboard served    *)
(*             in any order while the server clock advances.               *)
(* SpecComparePage the CompareReports page: the fetch of its mount and     *)
(*             the two dropdowns.                                          *)
(* SpecDashboard the Dashboard left alone after its mount: its effect,     *)
(*             the answers of the server, the clock.                       *)
(***************************************************************************)
EXTENDS Integers, Sequences, FiniteSets, TLC

VARIABLES
  reportsCache,     \* useState of ReportsProvider: reports, summary, lastFetched, loading, error
  now,              \* Date.now() in the browser, milliseconds
  pending,          \* fetches of /api/reports started by get() and not yet completed
  fetchCount,       \* calls made on the underlying fetch capability
  token,            \* localStorage "token"
  path,             \* current route
  loginPending,     \* LoginPage.handleSubmit awaiting the answer to POST /login
  showLogoutModal,  \* useState of SidePanel
  last,             \* the last operation of the session and what it returned
  store,            \* the object store the server reads
  srv,              \* the server's handling of one GET /api/reports
  cmp,              \* CompareReports: its state, the two reports compared, the table
  dl,               \* the server's handling of one GET /api/download-report/:runId
  auth              \* the server's handling of the authentication requests

clientVars == <<reportsCache, now, pending, fetchCount, token, path,
                loginPending, showLogoutModal, last>>
serverVars == <<store, srv>>
otherVars == <<cmp, dl, auth>>
vars == <<clientVars, serverVars, otherVars>>

-----------------------------------------------------------------------------
(* Bounds *)

MaxTicks == 4       \* clock advances explored
TickMs == 150000    \* one clock advance, milliseconds
MaxFetches == 3     \* fetches of /api/reports one behaviour may start
MaxInFlight == 2    \* fetches in flight at once
MaxRuns == 2        \* runs in a fetched report list, and in the store
MaxFiles == 3       \* objects under the prefix of a run read on its own
MaxCatalogFiles == 2\* objects under a run's prefix when the whole catalog is read

-----------------------------------------------------------------------------
(* Values *)

Null == -1                       \* JS null for a timestamp (no Date.now() is negative)
NullSummary == [isNull |-> TRUE] \* JS null for the summary
NoError == "null"                \* JS null for the error message

StaleWindowMs == 5 * 60 * 1000

StartMs == TickMs                \* Date.now() when the page loads: positive

RECURSIVE SumTotals(_)
SumTotals(rs) ==
  IF rs = <<>> THEN 0 ELSE Head(rs).total + SumTotals(Tail(rs))

\* A catalog entry as the client sees it: {runId, summary.statistic.total}.
Entry(i) == [runId |-> i, total |-> i]

ReportList(n) == [i \in 1..n |-> Entry(i)]

\* Bodies GET /api/reports can answer with (status 200): {reports, summary}, and
\* a body with neither field, which the `||` defaults turn into [] and null.
Body(n, t) ==
  [hasReports |-> TRUE, reports |-> ReportList(n),
   hasSummary |-> TRUE,
   summary |-> [totalReports |-> n, totalTests |-> SumTotals(ReportList(n)),
                lastUpdated |-> t]]

EmptyBody ==
  [hasReports |-> FALSE, reports |-> <<>>, hasSummary |-> FALSE, summary |-> NullSummary]

Bodies(t) == {Body(n, t) : n \in 0..MaxRuns} \cup {EmptyBody}

\* What a fetch of /api/reports can end with.
Answers(t) ==
  {[kind |-> "reject", ok |-> FALSE, status |-> 0, body |-> EmptyBody],
   [kind |-> "http", ok |-> FALSE, status |-> 500, body |-> EmptyBody]}
  \cup {[kind |-> "http", ok |-> TRUE, status |-> 200, body |-> b] : b \in Bodies(t)}

EmptyCache ==
  [reports |-> <<>>, summary |-> NullSummary, lastFetched |-> Null,
   loading |-> FALSE, error |-> NoError]

NoData == [reports |-> <<>>, summary |-> NullSummary]

\* The record kept of the last operation: its kind, its argument, whether it
\* started a fetch, what it returned or threw, the cache and the fetch count
\* before it, and Date.now() when it ran.
Op(op, force, started, msg, ret, before, fetches, at) ==
  [op |-> op, force |-> force, started |-> started, threw |-> msg # NoError,
   msg |-> msg, ret |-> ret, before |-> before, fetches |-> fetches, at |-> at]

NoLast == Op("none", FALSE, FALSE, NoError, NoData, EmptyCache, 0, 0)

-----------------------------------------------------------------------------
(* ReportsContext.jsx *)

\* `!x` on a timestamp: null and 0 are falsy.
Falsy(x) == x = Null \/ x = 0

\* Faulty variant: the window written in seconds instead of minutes.
shouldRefreshData_seconds(c, t) ==
  IF Falsy(c.lastFetched) \/ Len(c.reports) = 0
  THEN TRUE
  ELSE c.lastFetched < t - 5 * 1000

\* Faulty variant: the age of the data is never looked at.
shouldRefreshData_noAge(c, t) == Falsy(c.lastFetched) \/ Len(c.reports) = 0

shouldRefreshData(c, t) ==
  IF Falsy(c.lastFetched) \/ Len(c.reports) = 0
  THEN TRUE
  ELSE c.lastFetched < t - StaleWindowMs

\* The early return of fetchAndCacheReports.
UsesCache(c, t, forceRefresh) == ~forceRefresh /\ ~shouldRefreshData(c, t)

\* setReportsCache(prev => ({...prev, loading: true, error: null}))
StartLoading(prev) == [prev EXCEPT !.loading = TRUE, !.error = NoError]

\* Faulty variant: only the reports of the response are stored.
NewCache_reportsOnly(body, t) ==
  [reports |-> IF body.hasReports THEN body.reports ELSE <<>>,
   summary |-> NullSummary,
   lastFetched |-> t,
   loading |-> FALSE,
   error |-> NoError]

\* newCache of the success path.
NewCache(body, t) ==
  [reports |-> IF body.hasReports THEN body.reports ELSE <<>>,
   summary |-> IF body.hasSummary THEN body.summary ELSE NullSummary,
   lastFetched |-> t,
   loading |-> FALSE,
   error |-> NoError]

ErrorMessage(ans) ==
  IF ans.kind = "reject" THEN "Failed to fetch" ELSE "HTTP error! status: 500"

\* Faulty variant: the failure replaces the cache instead of updating it.
FailCache_replaces(prev, ans) == [EmptyCache EXCEPT !.error = ErrorMessage(ans)]

\* setReportsCache(prev => ({...prev, loading: false, error: error.message}))
FailCache(prev, ans) == [prev EXCEPT !.loading = FALSE, !.error = ErrorMessage(ans)]

\* getReports(forceRefresh) up to its first await: either the cached data is
\* returned, or loading is set and a fetch of /api/reports is started. The
\* callback is the one of the latest render, so the state it closes over is the
\* current one.
Get(forceRefresh) ==
  /\ IF UsesCache(reportsCache, now, forceRefresh)
     THEN /\ last' = Op("get", forceRefresh, FALSE, NoError,
                         [reports |-> reportsCache.reports,
                          summary |-> reportsCache.summary],
                         reportsCache, fetchCount, now)
          /\ UNCHANGED <<reportsCache, pending, fetchCount>>
     ELSE /\ fetchCount < MaxFetches
          /\ Cardinality(pending) < MaxInFlight
          /\ reportsCache' = StartLoading(reportsCache)
          /\ fetchCount' = fetchCount + 1
          /\ pending' = pending \cup {fetchCount + 1}
          /\ last' = Op("get", forceRefresh, TRUE, NoError, NoData,
                         reportsCache, fetchCount, now)
  /\ UNCHANGED <<now, token, path, loginPending, showLogoutModal, serverVars, otherVars>>

\* The rest of fetchAndCacheReports once the fetch has ended with `ans`.
Complete(id, ans) ==
  /\ id \in pending
  /\ pending' = pending \ {id}
  /\ IF ans.ok
     THEN /\ reportsCache' = NewCache(ans.body, now)
          /\ last' = Op("fetched", FALSE, FALSE, NoError,
                         [reports |-> NewCache(ans.body, now).reports,
                          summary |-> NewCache(ans.body, now).summary],
                         reportsCache, fetchCount, now)
     ELSE /\ reportsCache' = FailCache(reportsCache, ans)
          /\ last' = Op("failed", FALSE, FALSE, ErrorMessage(ans), NoData,
                         reportsCache, fetchCount, now)
  /\ UNCHANGED <<now, fetchCount, token, path, loginPending, showLogoutModal,
                 serverVars, otherVars>>

FetchDone == \E id \in pending : \E ans \in Answers(now) : Complete(id, ans)

\* Faulty variant: only the data is reset, loading and error are carried over.
clearCache_dataOnly ==
  /\ reportsCache' = [reportsCache EXCEPT !.reports = <<>>, !.summary = NullSummary,
                                          !.lastFetched = Null]
  /\ last' = Op("clear", FALSE, FALSE, NoError, NoData, reportsCache, fetchCount, now)
  /\ UNCHANGED <<now, pending, fetchCount, token, path, loginPending,
                 showLogoutModal, serverVars, otherVars>>

clearCache ==
  /\ reportsCache' = EmptyCache
  /\ last' = Op("clear", FALSE, FALSE, NoError, NoData, reportsCache, fetchCount, now)
  /\ UNCHANGED <<now, pending, fetchCount, token, path, loginPending,
                 showLogoutModal, serverVars, otherVars>>

Tick ==
  /\ now < StartMs + MaxTicks * TickMs
  /\ now' = now + TickMs
  /\ UNCHANGED <<reportsCache, pending, fetchCount, token, path, loginPending,
                 showLogoutModal, last, serverVars, otherVars>>

-----------------------------------------------------------------------------
(* The pages: App routes, ProtectedRoute, LoginPage, SidePanel *)

NoToken == "null"                \* localStorage.getItem("token") of an absent key

\* The pages whose components call getReports (Dashboard, AllureViewer).
CachePages == {"/dashboard", "/allure-viewer"}

\* The pages rendered inside Layout, which carries the SidePanel.
LayoutPages == {"/dashboard", "/compare-reports", "/report-generator"}

ProtectedPages == LayoutPages \cup {"/allure-viewer"}

Paths == ProtectedPages \cup {"/"}

\* Faulty variant: the route renders its children whatever the storage holds.
Route_open(p, tok) == p

\* ProtectedRoute: without a token a protected route renders <Navigate to="/">.
Route(p, tok) == IF p \in ProtectedPages /\ tok = NoToken THEN "/" ELSE p

\* LoginPage.handleSubmit up to its await of POST /login.
LoginSubmit ==
  /\ path = "/"
  /\ ~loginPending
  /\ loginPending' = TRUE
  /\ UNCHANGED <<reportsCache, now, pending, fetchCount, token, path,
                 showLogoutModal, last, serverVars, otherVars>>

\* The rest of handleSubmit: on res.ok the token is stored and the dashboard
\* opened; otherwise the error is shown.
LoginAnswer(ok) ==
  /\ loginPending
  /\ loginPending' = FALSE
  /\ IF ok
     THEN token' = "jwt" /\ path' = Route("/dashboard", "jwt")
     ELSE UNCHANGED <<token, path>>
  /\ UNCHANGED <<reportsCache, now, pending, fetchCount, showLogoutModal, last,
                 serverVars, otherVars>>

LoginDone == \E ok \in BOOLEAN : LoginAnswer(ok)

\* navigate(p) from a link of the page shown, or the browser's back/forward.
Navigate(p) ==
  /\ ~showLogoutModal
  /\ p # path
  /\ path' = Route(p, token)
  /\ UNCHANGED <<reportsCache, now, pending, fetchCount, token, loginPending,
                 showLogoutModal, last, serverVars, otherVars>>

GoTo == \E p \in Paths : Navigate(p)

\* SidePanel.handleNavigation(path, isLogout = true)
OpenLogoutModal ==
  /\ path \in LayoutPages
  /\ ~showLogoutModal
  /\ showLogoutModal' = TRUE
  /\ UNCHANGED <<reportsCache, now, pending, fetchCount, token, path,
                 loginPending, last, serverVars, otherVars>>

handleCancelLogout ==
  /\ showLogoutModal
  /\ showLogoutModal' = FALSE
  /\ UNCHANGED <<reportsCache, now, pending, fetchCount, token, path,
                 loginPending, last, serverVars, otherVars>>

handleLogout ==
  /\ showLogoutModal
  /\ token' = NoToken
  /\ path' = "/"
  /\ showLogoutModal' = FALSE
  /\ last' = Op("logout", FALSE, FALSE, NoError, NoData, reportsCache, fetchCount, now)
  /\ UNCHANGED <<reportsCache, now, pending, fetchCount, loginPending, serverVars, otherVars>>

\* A component of the page shown calls getReports(forceRefresh).
PageGet == \E f \in BOOLEAN : path \in CachePages /\ Get(f)

-----------------------------------------------------------------------------
(* Specifications of the browser side *)

ServerIdle == store = [listFails |-> FALSE, runs |-> <<>>] /\ srv = [pc |-> "idle"]

\* No comparison page mounted, no download and no login being handled.
OthersIdle == cmp = [pc |-> "idle"] /\ dl = [pc |-> "idle"] /\ auth = [pc |-> "idle"]

ClientInit ==
  /\ reportsCache = EmptyCache
  /\ now = StartMs
  /\ pending = {}
  /\ fetchCount = 0
  /\ token = NoToken
  /\ path = "/"
  /\ loginPending = FALSE
  /\ showLogoutModal = FALSE
  /\ last = NoLast

\* The cache as a component: its operations get, clear and the completions.
Init == ClientInit /\ ServerIdle /\ OthersIdle

CallGet == \E f \in BOOLEAN : Get(f)

Next ==
  \/ CallGet
  \/ FetchDone
  \/ clearCache
  \/ Tick

Spec == Init /\ [][Next]_vars

\* The application as wired: the cache is used by the pages only.
SessionNext ==
  \/ LoginSubmit
  \/ LoginDone
  \/ GoTo
  \/ OpenLogoutModal
  \/ handleCancelLogout
  \/ handleLogout
  \/ PageGet
  \/ FetchDone
  \/ Tick

SpecSession == Init /\ [][SessionNext]_vars

-----------------------------------------------------------------------------
(* The object store and the result files, as the server and the viewer read them *)

KnownStatuses == {"passed", "failed", "broken", "skipped"}

\* A parsed result object: name truthy or not, status ("" when absent), start and
\* stop (0 when absent).
Obj(hasName, status, start, stop) ==
  [json |-> "object", hasName |-> hasName, status |-> status,
   start |-> start, stop |-> stop]

\* What GetObject + JSON.parse of a file can give.
GetFails == [json |-> "getfail"]    \* s3Client.send rejects
BadJson == [json |-> "badjson"]     \* JSON.parse throws
JsonNull == [json |-> "null"]       \* the file holds the JSON text null

Contents ==
  {GetFails, BadJson, JsonNull,
   Obj(TRUE, "passed", 100, 200),
   Obj(TRUE, "failed", 0, 0),
   Obj(TRUE, "unknown", 50, 60),
   Obj(FALSE, "passed", 300, 400),
   Obj(TRUE, "", 100, 500)}

CatalogContents == {GetFails, Obj(TRUE, "passed", 100, 200)}

\* Objects under reports/<runId>/: result files, other JSON files, anything else.
StoredFiles ==
  {[suffix |-> "-result.json", content |-> c] : c \in Contents}
  \cup {[suffix |-> ".json", content |-> Obj(TRUE, "passed", 100, 200)],
        [suffix |-> ".txt", content |-> BadJson]}

CatalogFiles == {[suffix |-> "-result.json", content |-> c] : c \in CatalogContents}

SeqsUpTo(S, n) == UNION {[1..k -> S] : k \in 0..n}

\* A run in the store: its listing rejects, or lists these objects in this order.
Runs(files, n) ==
  {[listFails |-> TRUE, files |-> <<>>]}
  \cup {[listFails |-> FALSE, files |-> fs] : fs \in SeqsUpTo(files, n)}

\* Date.now() on the server during one call.
ServerClocks == {150, 1000}

\* String.endsWith
EndsWith(suffix, s) ==
  \/ suffix = s
  \/ s = ".json" /\ suffix = "-result.json"

RECURSIVE SelectIdx(_, _, _)
\* Array.filter by suffix over the listing: the indices kept, in listing order.
SelectIdx(files, s, i) ==
  IF i > Len(files) THEN <<>>
  ELSE (IF EndsWith(files[i].suffix, s) THEN <<i>> ELSE <<>>)
       \o SelectIdx(files, s, i + 1)

\* try { JSON.parse(await get) } catch { return null }
ParseOrNull(c) == IF c.json \in {"getfail", "badjson"} THEN JsonNull ELSE c

\* Boolean(x) of a parsed value.
Truthy(v) == v.json = "object"

RECURSIVE FilterBoolean(_)
FilterBoolean(rs) ==
  IF rs = <<>> THEN <<>>
  ELSE (IF Truthy(Head(rs)) THEN <<Head(rs)>> ELSE <<>>) \o FilterBoolean(Tail(rs))

RECURSIVE CountStatus(_, _)
\* results.filter(r => r.status === st).length
CountStatus(rs, st) ==
  IF rs = <<>> THEN 0
  ELSE (IF Head(rs).status = st THEN 1 ELSE 0) + CountStatus(Tail(rs), st)

\* Timestamps of a summary: null, a number, Infinity or -Infinity.
NullTime == [k |-> "null", v |-> 0]
Num(n) == [k |-> "num", v |-> n]
PosInf == [k |-> "Infinity", v |-> 0]
NegInf == [k |-> "-Infinity", v |-> 0]

\* x || Date.now()
OrNow(x, t) == IF x = 0 THEN t ELSE x

RECURSIVE MathMin(_)
\* Math.min(...xs): Infinity for no arguments.
MathMin(xs) ==
  IF xs = <<>> THEN PosInf
  ELSE LET m == MathMin(Tail(xs))
       IN IF m = PosInf \/ Head(xs) < m.v THEN Num(Head(xs)) ELSE m

RECURSIVE MathMax(_)
\* Math.max(...xs): -Infinity for no arguments.
MathMax(xs) ==
  IF xs = <<>> THEN NegInf
  ELSE LET m == MathMax(Tail(xs))
       IN IF m = NegInf \/ Head(xs) > m.v THEN Num(Head(xs)) ELSE m

\* Faulty variant: total computed as the sum of the four named counts.
Statistic_sum(rs) ==
  [total |-> CountStatus(rs, "passed") + CountStatus(rs, "failed")
             + CountStatus(rs, "broken") + CountStatus(rs, "skipped"),
   passed |-> CountStatus(rs, "passed"),
   failed |-> CountStatus(rs, "failed"),
   broken |-> CountStatus(rs, "broken"),
   skipped |-> CountStatus(rs, "skipped")]

Statistic(rs) ==
  [total |-> Len(rs),
   passed |-> CountStatus(rs, "passed"),
   failed |-> CountStatus(rs, "failed"),
   broken |-> CountStatus(rs, "broken"),
   skipped |-> CountStatus(rs, "skipped")]

\* The early return of fetchSummary for a run without result files.
ZeroSummary ==
  [statistic |-> [total |-> 0, passed |-> 0, failed |-> 0, broken |-> 0, skipped |-> 0],
   time |-> [start |-> NullTime, stop |-> NullTime],
   totalFiles |-> 0]

\* The return value of fetchSummary once every result file has been read:
\* `results` holds, in listing order, what each read gave.
SummaryOf(results, t) ==
  LET cleanResults == FilterBoolean(results)
  IN [statistic |-> Statistic(cleanResults),
      time |-> [start |-> MathMin([i \in 1..Len(cleanResults) |->
                                     OrNow(cleanResults[i].start, t)]),
                stop |-> MathMax([i \in 1..Len(cleanResults) |->
                                    OrNow(cleanResults[i].stop, t)])],
      totalFiles |-> Len(results)]

-----------------------------------------------------------------------------
(* fetchSummary, fetchRunResults, listAllReports and GET /api/reports *)

Pending == [json |-> "pending"]     \* a read that has not completed
NoRet == [k |-> "none"]
Threw == [k |-> "threw"]
NoResponse == [status |-> 0]

\* The call in progress: which function was called (fn), where it stands (pc),
\* the run being read (run), the indices of its candidate files (idx), what
\* their reads gave (results), the reader's loop position (pos), the value the
\* function returned or threw (ret); for the catalog, the runIds listed, the
\* reports pushed so far and the HTTP response.
Call(fn, pc, t) ==
  [fn |-> fn, pc |-> pc, now |-> t, run |-> 1, idx |-> <<>>, results |-> <<>>,
   pos |-> 0, ret |-> NoRet, runIds |-> <<>>, reports |-> <<>>, out |-> NoResponse]

\* The CommonPrefixes of the top-level listing: "reports/<run>/" for each run of
\* the store, in storage order. A prefix is kept as its three parts.
CommonPrefixes == [i \in 1..Len(store.runs) |-> <<"reports/", i, "/">>]

\* p.Prefix.replace("reports/", "").replace(/\/$/, "")
RunIdOf(prefix) ==
  LET a == IF Head(prefix) = "reports/" THEN Tail(prefix) ELSE prefix
  IN IF a # <<>> /\ a[Len(a)] = "/" THEN SubSeq(a, 1, Len(a) - 1) ELSE a

\* The run a listing of Prefix `reports/${execId}/` reads.
RunAt(execId) == store.runs[(<<"reports/">> \o execId \o <<"/">>)[2]]

\* The run the call in progress reads: the one fetchSummary was called for by
\* listAllReports, or the only one of the store.
CurrentRun ==
  IF srv.fn = "reports" THEN RunAt(srv.runIds[srv.run]) ELSE store.runs[srv.run]

\* fetchSummary(execId) up to Promise.all: the listing, the filter for result
\* files and the early return when there is none.
SummaryList ==
  /\ srv.fn \in {"fetchSummary", "reports"}
  /\ srv.pc = "start"
  /\ IF CurrentRun.listFails
     THEN srv' = [srv EXCEPT !.pc = "threw", !.ret = Threw]
     ELSE LET resultFiles == SelectIdx(CurrentRun.files, "-result.json", 1)
          IN IF Len(resultFiles) = 0
             THEN srv' = [srv EXCEPT !.pc = "returned",
                                     !.idx = <<>>, !.results = <<>>,
                                     !.ret = [k |-> "summary", summary |-> ZeroSummary]]
             ELSE srv' = [srv EXCEPT !.pc = "getting",
                                     !.idx = resultFiles,
                                     !.results = [j \in 1..Len(resultFiles) |-> Pending]]
  /\ UNCHANGED <<store, clientVars, otherVars>>

\* Faulty variant: no try/catch around the read, so a failed read rejects Promise.all.
SummaryGet_noCatch(j) ==
  /\ srv.pc = "getting"
  /\ j \in 1..Len(srv.results)
  /\ srv.results[j] = Pending
  /\ LET c == CurrentRun.files[srv.idx[j]].content
     IN IF c.json \in {"getfail", "badjson"}
        THEN srv' = [srv EXCEPT !.pc = "threw", !.ret = Threw]
        ELSE srv' = [srv EXCEPT !.results[j] = c]
  /\ UNCHANGED <<store, clientVars, otherVars>>

\* One of the reads started by resultFiles.map completes: parsed, or null.
SummaryGet(j) ==
  /\ srv.pc = "getting"
  /\ j \in 1..Len(srv.results)
  /\ srv.results[j] = Pending
  /\ srv' = [srv EXCEPT
               !.results[j] = ParseOrNull(CurrentRun.files[srv.idx[j]].content)]
  /\ UNCHANGED <<store, clientVars, otherVars>>

SummaryRead == \E j \in 1..Len(srv.results) : SummaryGet(j)

\* Promise.all resolved: the summary is built and returned.
SummaryReturn ==
  /\ srv.pc = "getting"
  /\ \A j \in 1..Len(srv.results) : srv.results[j] # Pending
  /\ srv' = [srv EXCEPT !.pc = "returned",
                        !.ret = [k |-> "summary",
                                 summary |-> SummaryOf(srv.results, srv.now)]]
  /\ UNCHANGED <<store, clientVars, otherVars>>

\* fetchRunResults(s3Client, s3Config, runId) up to its loop.
ReaderList ==
  /\ srv.fn = "fetchRunResults"
  /\ srv.pc = "start"
  /\ IF CurrentRun.listFails
     THEN srv' = [srv EXCEPT !.pc = "threw", !.ret = Threw]
     ELSE srv' = [srv EXCEPT !.pc = "reading",
                             !.idx = SelectIdx(CurrentRun.files, ".json", 1),
                             !.pos = 1, !.results = <<>>]
  /\ UNCHANGED <<store, clientVars, otherVars>>

\* jsonContent.name && jsonContent.status, inside the try: reading .name of null
\* throws and is caught like a failed read.
Keeps(c) == c.json = "object" /\ c.hasName /\ c.status # ""

\* {...jsonContent, runId, s3Key}
Tagged(c, runId, key) ==
  [json |-> c.json, hasName |-> c.hasName, status |-> c.status,
   start |-> c.start, stop |-> c.stop, runId |-> runId, s3Key |-> key]

\* One iteration of `for (const file of jsonFiles)`.
ReaderNext ==
  /\ srv.pc = "reading"
  /\ srv.pos <= Len(srv.idx)
  /\ LET c == CurrentRun.files[srv.idx[srv.pos]].content
     IN srv' = [srv EXCEPT
                  !.pos = srv.pos + 1,
                  !.results = IF Keeps(c)
                              THEN Append(srv.results,
                                          Tagged(c, <<srv.run>>, srv.idx[srv.pos]))
                              ELSE srv.results]
  /\ UNCHANGED <<store, clientVars, otherVars>>

\* fetchRunResults returns; AllureViewer.fetchTestResults computes its summary.
ReaderReturn ==
  /\ srv.pc = "reading"
  /\ srv.pos > Len(srv.idx)
  /\ srv' = [srv EXCEPT !.pc = "returned",
                        !.ret = [k |-> "records", records |-> srv.results,
                                 summary |-> Statistic(srv.results)]]
  /\ UNCHANGED <<store, clientVars, otherVars>>

\* JSON.stringify of a timestamp: Infinity and -Infinity are written as null.
JsonTime(t) == IF t.k \in {"Infinity", "-Infinity"} THEN NullTime ELSE t

JsonEntry(e) ==
  [runId |-> e.runId,
   summary |-> [e.summary EXCEPT !.time = [start |-> JsonTime(e.summary.time.start),
                                           stop |-> JsonTime(e.summary.time.stop)]]]

\* Faulty variant: only the first report is counted.
TotalTests_first(reports) ==
  IF reports = <<>> THEN 0 ELSE Head(reports).summary.statistic.total

RECURSIVE TotalTests(_)
\* reports.reduce((sum, report) => sum + (report.summary?.statistic?.total || 0), 0)
TotalTests(reports) ==
  IF reports = <<>> THEN 0
  ELSE Head(reports).summary.statistic.total + TotalTests(Tail(reports))

\* The catch of the GET /api/reports handler.
Error500 ==
  [status |-> 500, error |-> "Failed to fetch reports", details |-> "err.message",
   timestamp |-> srv.now]

\* GET /api/reports calls listAllReports, which lists the run prefixes.
CatalogList ==
  /\ srv.fn = "reports"
  /\ srv.pc = "listing"
  /\ IF store.listFails
     THEN srv' = [srv EXCEPT !.pc = "responded", !.ret = Threw, !.out = Error500]
     ELSE srv' = [srv EXCEPT !.runIds = [i \in 1..Len(CommonPrefixes) |->
                                          RunIdOf(CommonPrefixes[i])],
                             !.run = 1,
                             !.pc = IF Len(store.runs) = 0 THEN "listed" ELSE "start"]
  /\ UNCHANGED <<store, clientVars, otherVars>>

\* Faulty variant: the entry is put at the front of reports.
CatalogPush_unshift ==
  /\ srv.fn = "reports"
  /\ srv.pc = "returned"
  /\ srv' = [srv EXCEPT
               !.reports = <<[runId |-> srv.runIds[srv.run],
                              summary |-> srv.ret.summary]>> \o srv.reports,
               !.ret = NoRet, !.idx = <<>>, !.results = <<>>,
               !.run = IF srv.run < Len(srv.runIds) THEN srv.run + 1 ELSE srv.run,
               !.pc = IF srv.run < Len(srv.runIds) THEN "start" ELSE "listed"]
  /\ UNCHANGED <<store, clientVars, otherVars>>

\* `await fetchSummary(runId)` returned: reports.push({runId, summary}) and on to
\* the next runId.
CatalogPush ==
  /\ srv.fn = "reports"
  /\ srv.pc = "returned"
  /\ srv' = [srv EXCEPT
               !.reports = Append(srv.reports,
                                  [runId |-> srv.runIds[srv.run],
                                   summary |-> srv.ret.summary]),
               !.ret = NoRet, !.idx = <<>>, !.results = <<>>,
               !.run = IF srv.run < Len(srv.runIds) THEN srv.run + 1 ELSE srv.run,
               !.pc = IF srv.run < Len(srv.runIds) THEN "start" ELSE "listed"]
  /\ UNCHANGED <<store, clientVars, otherVars>>

\* `await fetchSummary(runId)` threw: listAllReports rejects and the handler's
\* catch answers 500.
CatalogFail ==
  /\ srv.fn = "reports"
  /\ srv.pc = "threw"
  /\ srv' = [srv EXCEPT !.pc = "responded", !.out = Error500]
  /\ UNCHANGED <<store, clientVars, otherVars>>

\* listAllReports returned its reports: the handler adds the overall summary and
\* answers with res.json.
CatalogRespond ==
  /\ srv.fn = "reports"
  /\ srv.pc = "listed"
  /\ srv' = [srv EXCEPT
               !.pc = "responded",
               !.ret = [k |-> "reports", reports |-> srv.reports],
               !.out = [status |-> 200,
                        reports |-> [i \in 1..Len(srv.reports) |->
                                       JsonEntry(srv.reports[i])],
                        summary |-> [totalReports |-> Len(srv.reports),
                                     totalTests |-> TotalTests(srv.reports),
                                     lastUpdated |-> srv.now]]]
  /\ UNCHANGED <<store, clientVars, otherVars>>

-----------------------------------------------------------------------------
(* Specifications of the server side *)

\* One run read on its own, by fetchSummary or by the viewer's fetchRunResults.
SummaryInit ==
  /\ ClientInit
  /\ OthersIdle
  /\ \E r \in Runs(StoredFiles, MaxFiles) :
       store = [listFails |-> FALSE, runs |-> <<r>>]
  /\ \E fn \in {"fetchSummary", "fetchRunResults"} : \E t \in ServerClocks :
       srv = Call(fn, "start", t)

SummaryNext ==
  \/ SummaryList
  \/ SummaryRead
  \/ SummaryReturn
  \/ ReaderList
  \/ ReaderNext
  \/ ReaderReturn

SpecSummary == SummaryInit /\ [][SummaryNext]_vars

\* One GET /api/reports over a store of runs.
CatalogInit ==
  /\ ClientInit
  /\ OthersIdle
  /\ \E lf \in BOOLEAN :
       \E rs \in SeqsUpTo(Runs(CatalogFiles, MaxCatalogFiles), MaxRuns) :
         store = [listFails |-> lf, runs |-> rs]
  /\ srv = Call("reports", "listing", 1000)

CatalogNext ==
  \/ CatalogList
  \/ SummaryList
  \/ SummaryRead
  \/ SummaryReturn
  \/ CatalogPush
  \/ CatalogFail
  \/ CatalogRespond

SpecCatalog == CatalogInit /\ [][CatalogNext]_vars

-----------------------------------------------------------------------------
(* The client-side cache: claims C1 to C5 *)

\* now - lastFetched at the time of the last operation.
AgeBefore == last.at - last.before.lastFetched

Filled(c) == c.lastFetched # Null

DataOf(c) == [reports |-> c.reports, summary |-> c.summary]

IsEmptyCache(c) ==
  /\ c.reports = <<>>
  /\ c.summary = NullSummary
  /\ c.lastFetched = Null
  /\ c.loading = FALSE
  /\ c.error = NoError

C2_CacheMiss ==
  /\ (last.op = "get"
        /\ (last.force \/ ~Filled(last.before) \/ AgeBefore > StaleWindowMs))
     => /\ last.started
        /\ fetchCount = last.fetches + 1
        /\ Cardinality(pending) >= 1
  /\ last.op = "fetched"
     => /\ reportsCache.lastFetched = last.at
        /\ reportsCache.loading = FALSE
        /\ reportsCache.error = NoError
        /\ DataOf(reportsCache) = last.ret

\* A get(false) on a non-empty cache older than 5 minutes has started a fetch.
C2_Witness ==
  /\ last.op = "get" /\ ~last.force /\ last.started
  /\ Filled(last.before) /\ Len(last.before.reports) > 0
  /\ AgeBefore > StaleWindowMs

\* C3: when a fetch started by get() fails, the cache records the error message
\* and loading = false, reports, summary and lastFetched keep the values they
\* had before the failure, and the failure is thrown to the caller.
C3_FailureKeepsData ==
  last.op = "failed"
  => /\ last.threw
     /\ last.msg \in {"Failed to fetch", "HTTP error! status: 500"}
     /\ reportsCache.error = last.msg
     /\ reportsCache.loading = FALSE
     /\ reportsCache.reports = last.before.reports
     /\ reportsCache.summary = last.before.summary
     /\ reportsCache.lastFetched = last.before.lastFetched

\* A fetch failed over a cache that held reports: they are still there.
C3_Witness ==
  /\ last.op = "failed"
  /\ Filled(last.before) /\ Len(last.before.reports) > 0
  /\ Len(reportsCache.reports) > 0

\* C4: clear() resets the cache to EMPTY from any state: reports = [],
\* summary = null, lastFetched = null, loading = false, error = null.
C4_ClearResets == last.op = "clear" => IsEmptyCache(reportsCache)

\* clear() was called on a cache that held reports and was loading again.
C4_Witness ==
  /\ last.op = "clear"
  /\ last.before.loading /\ Len(last.before.reports) > 0
  /\ pending # {}

\* C5 as stated: after the user confirms logout the cache is EMPTY, so that no
\* data fetched before the logout is left in it.
C5_LogoutClearsCache ==
  last.op = "logout"
  => /\ reportsCache.reports = <<>>
     /\ reportsCache.summary = NullSummary
     /\ reportsCache.lastFetched = Null

-----------------------------------------------------------------------------
(* The run catalog and the summarizer: claims C6 to C10 *)

\* The result files of a run, as positions in its listing.
ResultFilesOf(run) ==
  {i \in 1..Len(run.files) : run.files[i].suffix = "-result.json"}

\* C6 as stated: if the storage listing of one run throws while the other runs
\* succeed, the result of GET /api/reports still has an entry for every other
\* listed run.
C6_PartialFailureIsolation ==
  (srv.pc = "responded" /\ ~store.listFails)
  => \A i \in 1..Len(store.runs) :
       ~store.runs[i].listFails
       => /\ srv.out.status = 200
          /\ \E k \in 1..Len(srv.out.reports) : srv.out.reports[k].runId = <<i>>

\* C7: the catalog returned by listAllReports has exactly one entry per run
\* prefix of the storage listing, in the order of the listing, each with the
\* summary of its own run, whatever the order in which the reads complete.
C7_CatalogOrder ==
  /\ srv.fn = "reports"
     => /\ Len(srv.reports) <= Len(srv.runIds)
        /\ \A k \in 1..Len(srv.reports) : srv.reports[k].runId = srv.runIds[k]
  /\ srv.ret.k = "reports"
     => /\ Len(srv.ret.reports) = Len(store.runs)
        /\ \A k \in 1..Len(store.runs) :
             /\ srv.ret.reports[k].runId = <<k>>
             /\ srv.ret.reports[k].summary.totalFiles
                  = Cardinality(ResultFilesOf(store.runs[k]))

\* listAllReports returned two entries whose summaries differ.
C7_Witness ==
  /\ srv.ret.k = "reports"
  /\ Len(srv.ret.reports) >= 2
  /\ srv.ret.reports[1].summary.statistic.total
       > srv.ret.reports[2].summary.statistic.total
  /\ srv.ret.reports[2].summary.totalFiles >= 2

\* The records a finished call counted: for fetchSummary the result files of the
\* run that parsed to an object, for the viewer the records fetchRunResults
\* returned. Both as sets of listing positions.
CountedFiles ==
  IF srv.fn = "fetchSummary"
  THEN {i \in ResultFilesOf(CurrentRun) : CurrentRun.files[i].content.json = "object"}
  ELSE {srv.ret.records[k].s3Key : k \in 1..Len(srv.ret.records)}

StatisticOfCall == IF srv.fn = "fetchSummary" THEN srv.ret.summary.statistic
                   ELSE srv.ret.summary

NamedSum(st) == st.passed + st.failed + st.broken + st.skipped

Returned == srv.pc = "returned" /\ srv.fn \in {"fetchSummary", "fetchRunResults"}

\* C8: the summary's total is the number of records, and
\* passed + failed + broken + skipped is total when every record's status is
\* one of the four known values, and at most total otherwise.
C8_TotalIsCount ==
  Returned
  => LET st == StatisticOfCall
     IN /\ st.total = Cardinality(CountedFiles)
        /\ \A s \in KnownStatuses :
             st[s] = Cardinality({i \in CountedFiles :
                                    CurrentRun.files[i].content.status = s})
        /\ NamedSum(st) <= st.total
        /\ (\A i \in CountedFiles :
              CurrentRun.files[i].content.status \in KnownStatuses)
           => NamedSum(st) = st.total

\* A summary of three records, one of them of unknown status.
C8_Witness ==
  /\ Returned
  /\ StatisticOfCall.total = 3
  /\ StatisticOfCall.passed = 1 /\ StatisticOfCall.failed = 1
  /\ NamedSum(StatisticOfCall) = 2

\* C9 as stated: whenever the clean record list of a run is empty, because the
\* run has no result files or because every result file failed to parse, the
\* summary has all five counts 0 and time bounds {start: null, stop: null}.
C9_EmptyCleanListZeroSummary ==
  (srv.fn = "fetchSummary" /\ srv.pc = "returned"
     /\ \A i \in ResultFilesOf(CurrentRun) :
          CurrentRun.files[i].content.json \in {"getfail", "badjson"})
  => /\ srv.ret.summary.statistic
          = [total |-> 0, passed |-> 0, failed |-> 0, broken |-> 0, skipped |-> 0]
     /\ srv.ret.summary.time = [start |-> NullTime, stop |-> NullTime]

\* The candidate files of a finished call, and those whose read and parse
\* succeeded.
CandidateFiles ==
  IF srv.fn = "fetchSummary" THEN ResultFilesOf(CurrentRun)
  ELSE {i \in 1..Len(CurrentRun.files) :
          CurrentRun.files[i].suffix \in {".json", "-result.json"}}

ParsedFiles ==
  {i \in CandidateFiles : CurrentRun.files[i].content.json \in {"object", "null"}}

\* The files the function keeps a record of: any truthy parsed value for
\* fetchSummary, an object with a name and a status for fetchRunResults.
KeptFiles ==
  IF srv.fn = "fetchSummary"
  THEN {i \in ParsedFiles : CurrentRun.files[i].content.json = "object"}
  ELSE {i \in ParsedFiles :
          /\ CurrentRun.files[i].content.json = "object"
          /\ CurrentRun.files[i].content.hasName
          /\ CurrentRun.files[i].content.status # ""}

TotalFilesOfCall == IF srv.fn = "fetchSummary" THEN srv.ret.summary.totalFiles
                    ELSE Len(srv.idx)

\* C10 as stated: an unreadable file is skipped without aborting the batch, so
\* total equals the number of files that parsed and totalFiles >= total.
C10_TotalIsParsedCount ==
  /\ srv.pc = "threw" => CurrentRun.listFails
  /\ Returned
     => /\ StatisticOfCall.total = Cardinality(ParsedFiles)
        /\ TotalFilesOfCall >= StatisticOfCall.total

\* C10 as amended: a file that cannot be fetched or parsed is skipped without
\* aborting the batch (the call throws only when the listing fails); every
\* other file that parses to a record the function keeps is included, so total
\* equals the number of kept files, which is at most the number of files that
\* parsed, and totalFiles, the number of candidate files, is >= total.
C10_SkipsUnreadable ==
  /\ srv.fn \in {"fetchSummary", "fetchRunResults"} /\ srv.pc = "threw"
     => CurrentRun.listFails
  /\ Returned
     => /\ StatisticOfCall.total = Cardinality(KeptFiles)
        /\ srv.fn = "fetchRunResults" => CountedFiles = KeptFiles
        /\ Cardinality(KeptFiles) <= Cardinality(ParsedFiles)
        /\ TotalFilesOfCall = Cardinality(CandidateFiles)
        /\ TotalFilesOfCall >= StatisticOfCall.total

\* A call returned over three candidate files: one unreadable, one kept.
C10_Witness ==
  /\ Returned
  /\ TotalFilesOfCall = 3
  /\ StatisticOfCall.total = 1
  /\ Cardinality(ParsedFiles) = 2
  /\ \E i \in CandidateFiles : CurrentRun.files[i].content.json \in {"getfail", "badjson"}

-----------------------------------------------------------------------------
(* CompareReports (unnamed/part_000): the comparison of two catalog entries *)

MaxCount == 3       \* tests of one run in a compared entry

Categories == {"total", "passed", "failed", "broken", "skipped"}
Statuses == {"passed", "failed", "broken", "skipped"}

\* The statistic objects fetchSummary can build: total counts every parsed file,
\* the four named counts only the files with that status.
CompareStats ==
  {s \in [total : 0..MaxCount, passed : 0..MaxCount, failed : 0..MaxCount,
          broken : 0..MaxCount, skipped : 0..MaxCount] :
     s.passed + s.failed + s.broken + s.skipped <= s.total}

\* The entries of availableReports: {runId, summary} as GET /api/reports sends
\* them; totalFiles also counts the files that did not parse.
CompareEntries ==
  {[runId |-> i,
    summary |-> [statistic |-> s, totalFiles |-> s.total + u,
                 time |-> [start |-> Num(100), stop |-> Num(200)]]] :
     i \in 1..2, s \in CompareStats, u \in 0..1}

NoComparison == [isNull |-> TRUE]   \* useState(null) of comparisonData

RECURSIVE Gcd(_, _)
Gcd(a, b) == IF b = 0 THEN a ELSE Gcd(b, a % b)

\* The quotient n/d of two integers, n >= 0 and d > 0, kept exact.
Ratio(n, d) == [k |-> "num", num |-> n \div Gcd(n, d), den |-> d \div Gcd(n, d)]

ZeroPct == [k |-> "num", num |-> 0, den |-> 1]
NaNPct == [k |-> "NaN", num |-> 0, den |-> 0]
InfPct == [k |-> "Infinity", num |-> 0, den |-> 0]

\* Faulty variant: the quotient is stored without the `|| 0` default.
Percent_noDefault(x, total) ==
  IF total = 0 THEN (IF x = 0 THEN NaNPct ELSE InfPct)
  ELSE Ratio(x * 100, total)

\* ((x / total) * 100) || 0 : 0/0 is NaN, which `||` replaces by 0.
Percent(x, total) ==
  IF total = 0 THEN (IF x = 0 THEN ZeroPct ELSE InfPct)
  ELSE Ratio(x * 100, total)

Percentages(stats) ==
  [passed |-> Percent(stats.passed, stats.total),
   failed |-> Percent(stats.failed, stats.total),
   broken |-> Percent(stats.broken, stats.total),
   skipped |-> Percent(stats.skipped, stats.total)]

\* Faulty variant: first report minus second report.
Differences_reversed(r1, r2) ==
  [total |-> r1.stats.total - r2.stats.total,
   passed |-> r1.stats.passed - r2.stats.passed,
   failed |-> r1.stats.failed - r2.stats.failed,
   broken |-> r1.stats.broken - r2.stats.broken,
   skipped |-> r1.stats.skipped - r2.stats.skipped,
   files |-> r1.totalFiles - r2.totalFiles]

\* Faulty variant: the magnitude of the change, without its sign.
Differences_magnitude(r1, r2) ==
  [total |-> IF r2.stats.total < r1.stats.total
             THEN r1.stats.total - r2.stats.total
             ELSE r2.stats.total - r1.stats.total,
   passed |-> IF r2.stats.passed < r1.stats.passed
              THEN r1.stats.passed - r2.stats.passed
              ELSE r2.stats.passed - r1.stats.passed,
   failed |-> IF r2.stats.failed < r1.stats.failed
              THEN r1.stats.failed - r2.stats.failed
              ELSE r2.stats.failed - r1.stats.failed,
   broken |-> IF r2.stats.broken < r1.stats.broken
              THEN r1.stats.broken - r2.stats.broken
              ELSE r2.stats.broken - r1.stats.broken,
   skipped |-> IF r2.stats.skipped < r1.stats.skipped
               THEN r1.stats.skipped - r2.stats.skipped
               ELSE r2.stats.skipped - r1.stats.skipped,
   files |-> IF r2.totalFiles < r1.totalFiles
             THEN r1.totalFiles - r2.totalFiles
             ELSE r2.totalFiles - r1.totalFiles]

\* comparison.differences: second report minus first report.
Differences(r1, r2) ==
  [total |-> r2.stats.total - r1.stats.total,
   passed |-> r2.stats.passed - r1.stats.passed,
   failed |-> r2.stats.failed - r1.stats.failed,
   broken |-> r2.stats.broken - r1.stats.broken,
   skipped |-> r2.stats.skipped - r1.stats.skipped,
   files |-> r2.totalFiles - r1.totalFiles]

\* comparison.report1 / comparison.report2 of an entry found in availableReports.
Side(report) ==
  [name |-> report.runId,
   stats |-> report.summary.statistic,
   totalFiles |-> report.summary.totalFiles,
   time |-> report.summary.time]

\* The object generateComparison hands to setComparisonData.
Comparison(report1, report2) ==
  [report1 |-> Side(report1),
   report2 |-> Side(report2),
   differences |-> Differences(Side(report1), Side(report2)),
   percentages |-> [report1 |-> Percentages(Side(report1).stats),
                    report2 |-> Percentages(Side(report2).stats)]]

\* The rows of the detail table, and the flag each passes to the helpers.
Metrics ==
  <<[key |-> "total", isNegativeGood |-> FALSE],
    [key |-> "passed", isNegativeGood |-> FALSE],
    [key |-> "failed", isNegativeGood |-> TRUE],
    [key |-> "broken", isNegativeGood |-> TRUE],
    [key |-> "skipped", isNegativeGood |-> TRUE]>>

NotApplicable == [k |-> "N/A", tenths |-> 0]

\* (n / d).toFixed(1), d > 0: the decimal string with one digit after the point,
\* held as the number of tenths it denotes; a tie is rounded away from zero.
ToFixed1(n, d) ==
  [k |-> "fixed1",
   tenths |-> IF n < 0 THEN 0 - (((0 - n) * 20 + d) \div (2 * d))
              ELSE (n * 20 + d) \div (2 * d)]

\* Faulty variant: a first value of 0 always gives 'N/A'.
percentChange_noZeroBase(value1, value2) ==
  IF value1 > 0 THEN ToFixed1((value2 - value1) * 100, value1)
  ELSE NotApplicable

\* percentChange of a table row.
percentChange(value1, value2) ==
  IF value1 > 0 THEN ToFixed1((value2 - value1) * 100, value1)
  ELSE IF value2 > 0 /\ value1 = 0 THEN ToFixed1(value2 * 100, 1)
  ELSE NotApplicable

getDifferenceColor(value, isNegativeGood) ==
  IF value = 0 THEN "text-gray-600"
  ELSE IF isNegativeGood
       THEN (IF value > 0 THEN "text-red-600" ELSE "text-green-600")
       ELSE (IF value > 0 THEN "text-green-600" ELSE "text-red-600")

\* Faulty variant: the arrow follows the sign of the value for every metric.
getDifferenceIcon_bySign(value, isNegativeGood) ==
  IF value = 0 THEN ""
  ELSE IF value > 0 THEN "up-right" ELSE "down-right"

\* The arrows are written "up-right" and "down-right".
getDifferenceIcon(value, isNegativeGood) ==
  IF value = 0 THEN ""
  ELSE IF isNegativeGood
       THEN (IF value > 0 THEN "down-right" ELSE "up-right")
       ELSE (IF value > 0 THEN "up-right" ELSE "down-right")

\* One row of the detail table.
Row(metric, data) ==
  LET value1 == data.report1.stats[metric.key]
      value2 == data.report2.stats[metric.key]
      diff == value2 - value1
  IN [key |-> metric.key, value1 |-> value1, value2 |-> value2, diff |-> diff,
      percentChange |-> percentChange(value1, value2),
      color |-> getDifferenceColor(diff, metric.isNegativeGood),
      icon |-> getDifferenceIcon(diff, metric.isNegativeGood)]

\* Both reports found in availableReports: generateComparison builds the
\* comparison and stores it.
generateComparison ==
  /\ cmp.pc = "found"
  /\ cmp' = [cmp EXCEPT !.pc = "compared",
                        !.comparisonData = Comparison(cmp.report1, cmp.report2)]
  /\ UNCHANGED <<clientVars, serverVars, dl, auth>>

\* The render that follows setComparisonData: the rows of the detail table.
RenderTable ==
  /\ cmp.pc = "compared"
  /\ cmp' = [cmp EXCEPT !.pc = "rendered",
                        !.table = [i \in 1..Len(Metrics) |->
                                     Row(Metrics[i], cmp.comparisonData)]]
  /\ UNCHANGED <<clientVars, serverVars, dl, auth>>

\* generateComparison as a function of the two entries it found: every pair of
\* entries, an entry with itself included.
CompareInit ==
  /\ ClientInit
  /\ ServerIdle
  /\ dl = [pc |-> "idle"]
  /\ auth = [pc |-> "idle"]
  /\ \E r1 \in CompareEntries : \E r2 \in CompareEntries :
       cmp = [pc |-> "found", report1 |-> r1, report2 |-> r2,
              comparisonData |-> NoComparison, table |-> <<>>]

CompareNext ==
  \/ generateComparison
  \/ RenderTable

SpecCompare == CompareInit /\ [][CompareNext]_vars

-----------------------------------------------------------------------------
(* Claims C11 to C15: the comparison *)

Compared == cmp.pc \in {"compared", "rendered"}

\* C11: for every pair of catalog entries (A, B) the differences of the
\* comparison are B's count minus A's count in each of the five categories.
C11_DifferencesSecondMinusFirst ==
  Compared =>
    \A X \in Categories :
      cmp.comparisonData.differences[X]
        = cmp.report2.summary.statistic[X] - cmp.report1.summary.statistic[X]

\* Two runs of three tests, two passed against one failed and one broken:
\* the differences are {total: 0, passed: -2, failed: 1, broken: 1, skipped: 0}.
C11_Witness ==
  /\ Compared
  /\ cmp.report1.summary.statistic
       = [total |-> 3, passed |-> 2, failed |-> 0, broken |-> 0, skipped |-> 0]
  /\ cmp.report2.summary.statistic
       = [total |-> 3, passed |-> 0, failed |-> 1, broken |-> 1, skipped |-> 0]
  /\ cmp.comparisonData.differences.passed = 0 - 2
  /\ cmp.comparisonData.differences.failed = 1

\* C12: the comparison is antisymmetric: each difference of (A, B) is the
\* negation of the same difference of (B, A).
C12_Antisymmetric ==
  Compared =>
    \A X \in Categories :
      cmp.comparisonData.differences[X]
        = 0 - Comparison(cmp.report2, cmp.report1).differences[X]

C12_Witness ==
  /\ Compared
  /\ cmp.report1.runId # cmp.report2.runId
  /\ cmp.comparisonData.differences.total > 0
  /\ Comparison(cmp.report2, cmp.report1).differences.total < 0

PercentIsShare(pct, x, total) ==
  IF total = 0 THEN pct = ZeroPct
  ELSE pct.k = "num" /\ pct.num * total = x * 100 * pct.den

\* C13: a run compared with itself has all-zero differences and the same
\* percentages on both sides; every percentage of a comparison is the share of
\* that status in the report's own total, and 0 when the total is 0.
C13_SelfComparison ==
  Compared =>
    /\ cmp.report1 = cmp.report2 =>
         /\ \A X \in Categories \cup {"files"} :
              cmp.comparisonData.differences[X] = 0
         /\ cmp.comparisonData.percentages.report1
              = cmp.comparisonData.percentages.report2
    /\ \A s \in Statuses :
         /\ PercentIsShare(cmp.comparisonData.percentages.report1[s],
                           cmp.report1.summary.statistic[s],
                           cmp.report1.summary.statistic.total)
         /\ PercentIsShare(cmp.comparisonData.percentages.report2[s],
                           cmp.report2.summary.statistic[s],
                           cmp.report2.summary.statistic.total)

C13_Witness ==
  /\ Compared
  /\ cmp.report1 = cmp.report2
  /\ cmp.report1.summary.statistic.total = 3
  /\ cmp.comparisonData.percentages.report1.passed = Ratio(100, 3)
  /\ cmp.comparisonData.percentages.report2.passed = Ratio(100, 3)
  /\ cmp.comparisonData.differences.passed = 0

Rendered == cmp.pc = "rendered"

Rows == {cmp.table[i] : i \in 1..Len(cmp.table)}

\* C14 as stated: the percent-change of a row is exactly (b-a)/a*100 when a > 0,
\* b*100 when a = 0 and b > 0, and 'N/A' when a = 0 and b = 0.
C14_PercentChangeExact ==
  Rendered =>
    \A row \in Rows :
      /\ row.value1 > 0 =>
           /\ row.percentChange.k = "fixed1"
           /\ row.percentChange.tenths * row.value1
                = (row.value2 - row.value1) * 1000
      /\ (row.value1 = 0 /\ row.value2 > 0) =>
           row.percentChange = [k |-> "fixed1", tenths |-> row.value2 * 1000]
      /\ (row.value1 = 0 /\ row.value2 = 0) =>
           row.percentChange = NotApplicable

\* C14: the percent-change of a row with values a and b is (b-a)/a*100 rounded
\* to one decimal place when a > 0, b*100 when a = 0 and b > 0, and 'N/A' when
\* a = 0 and b = 0.
C14_PercentChangeRounded ==
  Rendered =>
    \A row \in Rows :
      /\ row.value1 > 0 =>
           /\ row.percentChange.k = "fixed1"
           /\ 2 * (row.percentChange.tenths * row.value1
                     - (row.value2 - row.value1) * 1000) <= row.value1
           /\ 2 * ((row.value2 - row.value1) * 1000
                     - row.percentChange.tenths * row.value1) <= row.value1
      /\ (row.value1 = 0 /\ row.value2 > 0) =>
           row.percentChange = [k |-> "fixed1", tenths |-> row.value2 * 1000]
      /\ (row.value1 = 0 /\ row.value2 = 0) =>
           row.percentChange = NotApplicable

\* Passed goes from 3 to 2 (-33.3), failed from 0 to 1 (100.0), broken stays 0.
C14_Witness ==
  /\ Rendered
  /\ \E row \in Rows :
       /\ row.key = "passed" /\ row.value1 = 3 /\ row.value2 = 2
       /\ row.percentChange = [k |-> "fixed1", tenths |-> 0 - 333]
  /\ \E row \in Rows :
       /\ row.key = "failed" /\ row.value1 = 0 /\ row.value2 = 1
       /\ row.percentChange = [k |-> "fixed1", tenths |-> 1000]
  /\ \E row \in Rows :
       /\ row.key = "broken" /\ row.value1 = 0 /\ row.value2 = 0
       /\ row.percentChange = NotApplicable

Improvement(row) ==
  \/ row.key \in {"total", "passed"} /\ row.diff > 0
  \/ row.key \in {"failed", "broken", "skipped"} /\ row.diff < 0

Regression(row) ==
  \/ row.key \in {"total", "passed"} /\ row.diff < 0
  \/ row.key \in {"failed", "broken", "skipped"} /\ row.diff > 0

\* C15: an improvement (more total or passed, fewer failed, broken or skipped)
\* is shown green with the up arrow, a regression red with the down arrow, and a
\* zero difference grey without an icon, so colour and icon always agree.
C15_DirectionalClassification ==
  Rendered =>
    \A row \in Rows :
      /\ Improvement(row) =>
           row.color = "text-green-600" /\ row.icon = "up-right"
      /\ Regression(row) =>
           row.color = "text-red-600" /\ row.icon = "down-right"
      /\ row.diff = 0 => row.color = "text-gray-600" /\ row.icon = ""

C15_Witness ==
  /\ Rendered
  /\ \E row \in Rows :
       row.key = "passed" /\ row.diff < 0 /\ row.icon = "down-right"
  /\ \E row \in Rows :
       row.key = "failed" /\ row.diff > 0 /\ row.color = "text-red-600"
                          /\ row.icon = "down-right"
  /\ \E row \in Rows :
       row.key = "skipped" /\ row.diff < 0 /\ row.color = "text-green-600"
                           /\ row.icon = "up-right"
  /\ \E row \in Rows : row.key = "total" /\ row.diff = 0 /\ row.icon = ""

-----------------------------------------------------------------------------
(* GET /api/download-report/:runId (unnamed/part_002) *)

MaxDownloadFiles == 3   \* result files under the prefix of the downloaded run

\* An object key as its path segments; dir marks a key that ends with "/".
FileKey(i) == [segs |-> <<"reports", "run", "f" \o ToString(i)>>, dir |-> FALSE]
MarkerKey == [segs |-> <<"reports", "run">>, dir |-> TRUE]

\* path.basename(key): the last segment, a trailing "/" being ignored.
Basename(key) == IF key.segs = <<>> THEN "" ELSE key.segs[Len(key.segs)]

\* What ListObjectsV2 can return for the prefix reports/<runId>/, in key order:
\* the folder marker, if there is one, and then the files.
Listings ==
  {[i \in 1..n |-> FileKey(i)] : n \in 0..MaxDownloadFiles}
    \cup {<<MarkerKey>> \o [i \in 1..n |-> FileKey(i)] : n \in 0..MaxDownloadFiles}

NoResponses == <<>>

Json(status, error) == [status |-> status, type |-> "application/json", error |-> error]
ZipResponse == [status |-> 200, type |-> "application/zip", error |-> ""]

\* The handler about to run, for a run whose prefix lists as `listing`.
Download(listing, credentials, listFails) ==
  [pc |-> "start",
   listing |-> listing,          \* what the store will answer to the listing
   credentials |-> credentials,  \* AWS_ACCESS_KEY and AWS_SECRET_KEY are set
   listFails |-> listFails,      \* s3Client.send(listCommand) rejects
   files |-> <<>>,               \* const files
   zipHeaders |-> FALSE,         \* res.set({Content-Type: application/zip, ...}) done
   archive |-> FALSE,            \* archiver.default('zip', ...) done
   reads |-> <<>>,               \* per file: "pending", "ok", "failed", "skipped"
   entries |-> <<>>,             \* archive.append calls, as positions in files
   finalizeCalled |-> FALSE,
   archiveError |-> FALSE,       \* the archive has emitted 'error'
   headersSent |-> FALSE,        \* res.headersSent
   ended |-> FALSE,              \* res.end() done
   responses |-> NoResponses,    \* the responses started on res, in order
   errors |-> <<>>]              \* errors raised, with res.headersSent at that time

Raised(d, what) == Append(d.errors, [what |-> what, headersSent |-> d.headersSent])

\* res.status(s).json(body): starts and ends a response.
SendJson(d, status, error) ==
  [d EXCEPT !.responses = Append(d.responses, Json(status, error)),
            !.headersSent = TRUE, !.ended = TRUE]

\* The catch of the handler.
Catch(d, what) ==
  LET e == [d EXCEPT !.pc = "caught", !.errors = Raised(d, what)]
  IN IF ~d.headersSent THEN SendJson(e, 500, "Failed to create download") ELSE e

\* files.map(async (file) => ...) up to the first await of each callback.
StartReads(files) ==
  [i \in 1..Len(files) |-> IF Basename(files[i]) # "" THEN "pending" ELSE "skipped"]

PendingReads(reads) == {i \in 1..Len(reads) : reads[i] = "pending"}

\* await Promise.all(streamPromises) continues once no read is pending, and
\* archive.finalize() is called.
AwaitAll(d) ==
  IF PendingReads(d.reads) = {} THEN [d EXCEPT !.pc = "finalizing", !.finalizeCalled = TRUE]
  ELSE d

\* Faulty variant: the headers are set and the archive created before the
\* listing is looked at.
Listed_lateCheck(d, files) ==
  IF files = <<>>
  THEN SendJson([d EXCEPT !.pc = "responded", !.zipHeaders = TRUE, !.archive = TRUE],
                404, "No files found for runId")
  ELSE AwaitAll([d EXCEPT !.pc = "reading", !.files = files, !.zipHeaders = TRUE,
                          !.archive = TRUE, !.reads = StartReads(files)])

\* The handler from the answer of the listing to await Promise.all.
Listed(d, files) ==
  IF files = <<>>
  THEN SendJson([d EXCEPT !.pc = "responded"], 404, "No files found for runId")
  ELSE AwaitAll([d EXCEPT !.pc = "reading", !.files = files, !.zipHeaders = TRUE,
                          !.archive = TRUE, !.reads = StartReads(files)])

\* Faulty variant: no try/catch around the read, whose rejection rejects
\* Promise.all and reaches the catch of the handler.
Settle_noCatch(d, i, ok) ==
  IF ok
  THEN AwaitAll([d EXCEPT !.reads[i] = "ok", !.entries = Append(d.entries, i)])
  ELSE Catch([d EXCEPT !.reads[i] = "failed"], "read")

\* The read of files[i] settles: archive.append on success, the inner catch on
\* failure; the last one to settle lets Promise.all continue.
Settle(d, i, ok) ==
  IF ok
  THEN AwaitAll([d EXCEPT !.reads[i] = "ok", !.entries = Append(d.entries, i)])
  ELSE AwaitAll([d EXCEPT !.reads[i] = "failed"])

\* The handler up to `await s3Client.send(listCommand)`: the credentials check
\* throws into the catch when a key is missing.
DownloadStart ==
  /\ dl.pc = "start"
  /\ dl' = IF dl.credentials THEN [dl EXCEPT !.pc = "listing"]
           ELSE Catch(dl, "credentials")
  /\ UNCHANGED <<clientVars, serverVars, cmp, auth>>

\* The listing settles: a rejection goes to the catch, an answer to
\* `listResult.Contents || []` and on to the reads.
DownloadListed ==
  /\ dl.pc = "listing"
  /\ dl' = IF dl.listFails THEN Catch(dl, "listing") ELSE Listed(dl, dl.listing)
  /\ UNCHANGED <<clientVars, serverVars, cmp, auth>>

\* One of the reads started by files.map settles, in any order, either way.
ReadDone ==
  /\ dl.pc = "reading"
  /\ \E i \in PendingReads(dl.reads) : \E ok \in BOOLEAN : dl' = Settle(dl, i, ok)
  /\ UNCHANGED <<clientVars, serverVars, cmp, auth>>

\* The archive has something to write (an entry, or the end of the archive once
\* finalize was called) and writes it to the piped response: the first write
\* sends the headers set by res.set. A write to an ended response is dropped.
ArchiveData ==
  /\ dl.archive
  /\ dl.entries # <<>> \/ dl.finalizeCalled
  /\ ~dl.headersSent
  /\ dl' = [dl EXCEPT !.headersSent = TRUE,
                      !.responses = Append(dl.responses, ZipResponse)]
  /\ UNCHANGED <<clientVars, serverVars, cmp, auth>>

\* Faulty variant: the 'error' listener answers without looking at
\* res.headersSent.
OnArchiveError_unguarded(d) ==
  SendJson([d EXCEPT !.archiveError = TRUE, !.errors = Raised(d, "archive")],
           500, "Failed to create archive")

\* archive.on('error', ...)
OnArchiveError(d) ==
  LET e == [d EXCEPT !.archiveError = TRUE, !.errors = Raised(d, "archive")]
  IN IF ~d.headersSent THEN SendJson(e, 500, "Failed to create archive") ELSE e

\* The archive emits 'error' while it takes an entry or writes: at any time
\* between the first append and the end of the archive.
ArchiveError ==
  /\ dl.archive
  /\ dl.pc \in {"reading", "finalizing"}
  /\ dl.entries # <<>>
  /\ ~dl.archiveError
  /\ dl' = OnArchiveError(dl)
  /\ UNCHANGED <<clientVars, serverVars, cmp, auth>>

\* `await archive.finalize()` settles: it resolves when the archive has been
\* written to the end, and can reject when the archive has emitted 'error'.
FinalizeDone ==
  /\ dl.pc = "finalizing"
  /\ dl.headersSent
  /\ \E rejects \in BOOLEAN :
       /\ rejects => dl.archiveError
       /\ dl' = IF rejects THEN Catch(dl, "finalize")
                ELSE [dl EXCEPT !.pc = "done", !.ended = TRUE]
  /\ UNCHANGED <<clientVars, serverVars, cmp, auth>>

\* One request, for any listing of the run's prefix.
DownloadInit ==
  /\ ClientInit
  /\ ServerIdle
  /\ cmp = [pc |-> "idle"]
  /\ auth = [pc |-> "idle"]
  /\ \E listing \in Listings : \E credentials \in BOOLEAN : \E listFails \in BOOLEAN :
       dl = Download(listing, credentials, listFails)

DownloadNext ==
  \/ DownloadStart
  \/ DownloadListed
  \/ ReadDone
  \/ ArchiveData
  \/ ArchiveError
  \/ FinalizeDone

SpecDownload == DownloadInit /\ [][DownloadNext]_vars

-----------------------------------------------------------------------------
(* Claims C16 to C19: the download *)

ListingAnswered == dl.pc \notin {"idle", "start", "listing"} /\ dl.errors = <<>>

\* C16: a download of a run whose listing holds no object answers 404 with a
\* JSON error; no zip header is set, no archive is created and nothing else is
\* written.
C16_EmptyListingNotFound ==
  (ListingAnswered /\ dl.listing = <<>>) =>
    /\ dl.responses = <<Json(404, "No files found for runId")>>
    /\ ~dl.zipHeaders
    /\ ~dl.archive
    /\ dl.entries = <<>>
    /\ ~dl.finalizeCalled

C16_Witness ==
  /\ dl.pc = "responded"
  /\ dl.listing = <<>>
  /\ dl.responses = <<Json(404, "No files found for runId")>>
  /\ dl.ended

FailedReads == {i \in 1..Len(dl.reads) : dl.reads[i] = "failed"}
Appended == {dl.entries[j] : j \in 1..Len(dl.entries)}

\* C17: once every read of a download has settled and some read has failed, the
\* failed files are left out, every other listed file with a non-empty base
\* name has been appended once, finalize has been called, and the failed read
\* has not reached the catch of the handler.
C17_BestEffortBundling ==
  (dl.pc # "idle" /\ dl.archive /\ PendingReads(dl.reads) = {} /\ FailedReads # {}) =>
    /\ Appended \cap FailedReads = {}
    /\ \A i \in 1..Len(dl.files) :
         (Basename(dl.files[i]) # "" /\ i \notin FailedReads) => i \in Appended
    /\ Cardinality(Appended) = Len(dl.entries)
    /\ dl.finalizeCalled
    /\ \A j \in 1..Len(dl.errors) : dl.errors[j].what # "read"

\* Three files, the read of one fails: the other two are in the archive and the
\* download has completed as a zip.
C17_Witness ==
  /\ dl.pc = "done"
  /\ Len(dl.files) = 3
  /\ Cardinality(FailedReads) = 1
  /\ Len(dl.entries) = 2
  /\ dl.responses = <<ZipResponse>>
  /\ dl.errors = <<>>
  /\ dl.ended

\* C18: the entries of the archive are appended in the order of the listing,
\* whatever the order in which the reads complete.
C18_EntriesInListingOrder ==
  dl.pc # "idle" =>
    \A j \in 1..Len(dl.entries) : \A k \in 1..Len(dl.entries) :
      j < k => dl.entries[j] < dl.entries[k]

IsError500(r) == r.status = 500 /\ r.type = "application/json" /\ r.error # ""

\* C19: a request starts at most one response; an error raised while no header
\* was sent is answered 500 with a JSON error, and after an error raised once
\* the headers were sent the only response is still the zip.
C19_OneResponse ==
  dl.pc # "idle" =>
    /\ Len(dl.responses) <= 1
    /\ \A j \in 1..Len(dl.errors) :
         ~dl.errors[j].headersSent =>
           Len(dl.responses) = 1 /\ IsError500(dl.responses[1])
    /\ (dl.errors # <<>> /\ dl.errors[1].headersSent) => dl.responses = <<ZipResponse>>

\* The archive fails before anything was written and finalize then rejects: one
\* 500 from the 'error' listener, nothing from the catch.
C19_Witness ==
  /\ dl.pc = "caught"
  /\ dl.errors = <<[what |-> "archive", headersSent |-> FALSE],
                   [what |-> "finalize", headersSent |-> TRUE]>>
  /\ dl.responses = <<Json(500, "Failed to create archive")>>

-----------------------------------------------------------------------------
(* POST /login (unnamed/part_002) *)

MaxLogins == 2      \* login requests handled one after the other

\* The fields of req.body after express.json(): absent, a string, or a number.
Undefined == [k |-> "undefined", v |-> ""]
Str(s) == [k |-> "string", v |-> s]
NumberField == [k |-> "number", v |-> "12345"]

user == [id |-> 1, email |-> "test@example.com", plain |-> "MyOP010199@"]

Emails == {Undefined, Str(user.email), Str("other@example.com"), NumberField}
Passwords == {Undefined, Str(user.plain), Str("wrong"), NumberField}
LoginBodies == [email : Emails, password : Passwords]

IllegalArguments == [k |-> "throws", v |-> FALSE]

\* bcrypt.compareSync(s, user.password) of bcryptjs: throws "Illegal arguments"
\* unless s is a string; otherwise tells whether s hashes to the stored hash.
compareSync(s) ==
  IF s.k # "string" THEN IllegalArguments
  ELSE [k |-> "returns", v |-> (s.v = user.plain)]

LoginReply(status, message, issued) ==
  [status |-> status, message |-> message, token |-> issued]

\* The handler of POST /login; an exception it lets escape is answered 500 by
\* the default error handler of express.
LoginHandler(body) ==
  IF body.email # Str(user.email) THEN LoginReply(400, "Invalid email", FALSE)
  ELSE IF compareSync(body.password) = IllegalArguments
       THEN LoginReply(500, "Illegal arguments", FALSE)
       ELSE IF ~compareSync(body.password).v
            THEN LoginReply(400, "Invalid password", FALSE)
            ELSE LoginReply(200, "", TRUE)

\* A request arrives.
LoginReceive ==
  /\ auth.pc \in {"listening", "responded"}
  /\ Len(auth.log) < MaxLogins
  /\ \E body \in LoginBodies : auth' = [auth EXCEPT !.pc = "received", !.body = body]
  /\ UNCHANGED <<clientVars, serverVars, cmp, dl>>

\* The handler runs and answers.
LoginHandle ==
  /\ auth.pc = "received"
  /\ auth' = [auth EXCEPT !.pc = "responded",
                          !.log = Append(auth.log, [body |-> auth.body,
                                                    out |-> LoginHandler(auth.body)])]
  /\ UNCHANGED <<clientVars, serverVars, cmp, dl>>

LoginInit ==
  /\ ClientInit
  /\ ServerIdle
  /\ cmp = [pc |-> "idle"]
  /\ dl = [pc |-> "idle"]
  /\ auth = [pc |-> "listening", body |-> [email |-> Undefined, password |-> Undefined],
             log |-> <<>>]

LoginNext ==
  \/ LoginReceive
  \/ LoginHandle

SpecLogin == LoginInit /\ [][LoginNext]_vars

-----------------------------------------------------------------------------
(* Claim C20: the login *)

Handled == IF auth.pc = "idle" THEN {} ELSE {auth.log[i] : i \in 1..Len(auth.log)}

GoodCredentials(body) ==
  body.email = Str(user.email) /\ body.password = Str(user.plain)

\* C20: POST /login answers with a token exactly when the email is the
\* configured email and the password matches the stored hash, and answers every
\* other body (wrong email, wrong password, missing fields) with 400 and no token.
C20_TokenOrBadRequest ==
  \A h \in Handled :
    /\ h.out.token <=> GoodCredentials(h.body)
    /\ ~GoodCredentials(h.body) => h.out.status = 400 /\ ~h.out.token

-----------------------------------------------------------------------------
(* The three authentication endpoints of the server together (unnamed/part_002) *)

MaxRequests == 3    \* requests one behaviour sends to the server
MaxAuthTicks == 3   \* advances of the server clock
AuthTickHours == 12 \* one advance of the server clock, in hours
TokenHours == 24    \* expiresIn: "24h"

\* A JWT as what jwt.verify looks at: who signed it and when it expires.
Jwt(sig, iat) == [sig |-> sig, iat |-> iat, exp |-> iat + TokenHours]
NoJwt == [sig |-> "none", iat |-> 0, exp |-> 0]

\* jwt.sign({ id, email }, SECRET_KEY, { expiresIn: "24h" }) at time t.
Sign(t) == Jwt("SECRET_KEY", t)

\* A token signed with another key.
ForgedJwt == Jwt("other key", 0)

\* The Authorization header: absent, a scheme without a token, or two words.
NoHeader == [k |-> "absent", token |-> NoJwt]
SchemeOnly == [k |-> "Bearer", token |-> NoJwt]
Bearer(t) == [k |-> "Bearer token", token |-> t]

\* authHeader && authHeader.split(" ")[1]
HeaderToken(h) == IF h.k = "Bearer token" THEN h.token ELSE NoJwt

\* jwt.verify(token, SECRET_KEY, callback): err unless the signature is the
\* server's and the token has not expired.
Verifies(t, at) == t.sig = "SECRET_KEY" /\ at < t.exp

AuthReply(status, message, issued) ==
  [status |-> status, message |-> message, token |-> issued]

\* Faulty variant: a request without a token is answered like a bad token.
DashboardHandler_no401(h, at) ==
  IF Verifies(HeaderToken(h), at) THEN AuthReply(200, "Welcome to Dashboard", NoJwt)
  ELSE AuthReply(403, "", NoJwt)

\* GET /dashboard
DashboardHandler(h, at) ==
  IF HeaderToken(h) = NoJwt THEN AuthReply(401, "", NoJwt)
  ELSE IF ~Verifies(HeaderToken(h), at) THEN AuthReply(403, "", NoJwt)
       ELSE AuthReply(200, "Welcome to Dashboard", NoJwt)

\* POST /login, with the token it signs.
LoginWithToken(body, at) ==
  LET out == LoginHandler(body)
  IN AuthReply(out.status, out.message, IF out.token THEN Sign(at) ELSE NoJwt)

\* POST /debug/token
DebugTokenHandler(at) == AuthReply(200, "Fresh token generated", Sign(at))

Served(req, body, header, out) ==
  [req |-> req, body |-> body, header |-> header, at |-> auth.clock, out |-> out]

NoBody == [email |-> Undefined, password |-> Undefined]

\* The bodies posted to /login here: the configured email with each kind of
\* password, and the correct password with another email.
AuthBodies ==
  {b \in LoginBodies :
     \/ b.email = Str(user.email)
     \/ b.email = Str("other@example.com") /\ b.password = Str(user.plain)}

AuthLog(entry) ==
  [auth EXCEPT !.log = Append(auth.log, entry),
               !.held = IF entry.out.token = NoJwt THEN auth.held
                        ELSE auth.held \cup {entry.out.token}]

\* A client posts a body to /login.
AuthLogin ==
  /\ auth.pc = "serving"
  /\ Len(auth.log) < MaxRequests
  /\ \E body \in AuthBodies :
       auth' = AuthLog(Served("POST /login", body, NoHeader,
                              LoginWithToken(body, auth.clock)))
  /\ UNCHANGED <<clientVars, serverVars, cmp, dl>>

\* A client posts to /debug/token.
AuthDebugToken ==
  /\ auth.pc = "serving"
  /\ Len(auth.log) < MaxRequests
  /\ auth' = AuthLog(Served("POST /debug/token", NoBody, NoHeader,
                            DebugTokenHandler(auth.clock)))
  /\ UNCHANGED <<clientVars, serverVars, cmp, dl>>

\* A client gets /dashboard with no header, a scheme alone, a token the server
\* has answered with, or a token of its own making.
AuthDashboard ==
  /\ auth.pc = "serving"
  /\ Len(auth.log) < MaxRequests
  /\ \E h \in {NoHeader, SchemeOnly, Bearer(ForgedJwt)} \cup {Bearer(t) : t \in auth.held} :
       auth' = AuthLog(Served("GET /dashboard", NoBody, h,
                              DashboardHandler(h, auth.clock)))
  /\ UNCHANGED <<clientVars, serverVars, cmp, dl>>

AuthTick ==
  /\ auth.pc = "serving"
  /\ auth.clock < MaxAuthTicks * AuthTickHours
  /\ auth' = [auth EXCEPT !.clock = auth.clock + AuthTickHours]
  /\ UNCHANGED <<clientVars, serverVars, cmp, dl>>

AuthInit ==
  /\ ClientInit
  /\ ServerIdle
  /\ cmp = [pc |-> "idle"]
  /\ dl = [pc |-> "idle"]
  /\ auth = [pc |-> "serving", clock |-> 0, held |-> {}, log |-> <<>>]

AuthNext ==
  \/ AuthLogin
  \/ AuthDebugToken
  \/ AuthDashboard
  \/ AuthTick

SpecAuth == AuthInit /\ [][AuthNext]_vars

-----------------------------------------------------------------------------
(* Claims C21 and C22: tokens *)

AuthServed == IF auth.pc = "serving" THEN 1..Len(auth.log) ELSE {}

\* C21: a token accepted by GET /dashboard has only been obtained after a
\* request that supplied the correct email and password.
C21_TokenOnlyAfterCredentials ==
  \A i \in AuthServed :
    (auth.log[i].req = "GET /dashboard" /\ auth.log[i].out.status = 200) =>
      \E j \in 1..(i - 1) :
        auth.log[j].req = "POST /login" /\ GoodCredentials(auth.log[j].body)

\* C22: GET /dashboard answers 401 when the header carries no token, 403 when
\* the token does not verify (bad signature or expired), and the welcome
\* message with the user only when the token verifies.
C22_DashboardStatus ==
  \A i \in AuthServed :
    auth.log[i].req = "GET /dashboard" =>
      LET e == auth.log[i]
          t == HeaderToken(e.header)
      IN /\ e.header.k \in {"absent", "Bearer"} => e.out.status = 401
         /\ (e.header.k = "Bearer token" /\ ~Verifies(t, e.at)) => e.out.status = 403
         /\ e.out.status = 200 <=>
              (e.header.k = "Bearer token" /\ t.sig = "SECRET_KEY" /\ e.at < t.exp)
         /\ e.out.status = 200 <=> e.out.message = "Welcome to Dashboard"

\* A login, a day passes, and the token it gave is refused as expired.
C22_Witness ==
  /\ auth.pc = "serving"
  /\ Len(auth.log) = 2
  /\ auth.log[1].req = "POST /login" /\ auth.log[1].out.status = 200
  /\ auth.log[2].req = "GET /dashboard"
  /\ auth.log[2].header = Bearer(auth.log[1].out.token)
  /\ auth.log[2].at = TokenHours
  /\ auth.log[2].out.status = 403

-----------------------------------------------------------------------------
(* Claim C23: the body of GET /api/reports *)

CatalogAnswered == srv.pc = "responded" /\ srv.fn = "reports"

\* The listing of the run prefixes, or the listing of one run, rejects.
CatalogFetchFails ==
  \/ store.listFails
  \/ \E i \in 1..Len(store.runs) : store.runs[i].listFails

RECURSIVE SumOfTotals(_, _)
SumOfTotals(reports, n) ==
  IF n = 0 THEN 0
  ELSE SumOfTotals(reports, n - 1) + reports[n].summary.statistic.total

\* C23: the summary of a 200 answer has totalReports = the number of entries
\* and totalTests = the sum of their statistic.total; when the catalog fetch
\* fails the answer is 500 with error, details and timestamp, and no reports.
C23_OverallSummary ==
  CatalogAnswered =>
    /\ ~CatalogFetchFails =>
         /\ srv.out.status = 200
         /\ srv.out.summary.totalReports = Len(srv.out.reports)
         /\ srv.out.summary.totalTests = SumOfTotals(srv.out.reports, Len(srv.out.reports))
         /\ srv.out.summary.lastUpdated = srv.now
    /\ CatalogFetchFails =>
         /\ srv.out.status = 500
         /\ DOMAIN srv.out = {"status", "error", "details", "timestamp"}

\* Two runs with tests in both.
C23_Witness ==
  /\ CatalogAnswered
  /\ srv.out.status = 200
  /\ Len(srv.out.reports) = 2
  /\ srv.out.reports[1].summary.statistic.total > 0
  /\ srv.out.reports[2].summary.statistic.total > 0
  /\ srv.out.summary.totalTests
       = srv.out.reports[1].summary.statistic.total
           + srv.out.reports[2].summary.statistic.total

-----------------------------------------------------------------------------
(* Claim C24: what counts as a record *)

NamedWithStatus(c) == c.json = "object" /\ c.hasName /\ c.status # ""

\* C24 as stated: every record returned, and every file counted in
\* statistic.total, is a parsed object with both a name and a status.
C24_RecordsHaveNameAndStatus ==
  Returned =>
    /\ srv.fn = "fetchRunResults" =>
         \A k \in 1..Len(srv.ret.records) : NamedWithStatus(srv.ret.records[k])
    /\ StatisticOfCall.total
         = Cardinality({i \in CandidateFiles :
                          NamedWithStatus(CurrentRun.files[i].content)})

-----------------------------------------------------------------------------
(* Claim C25: the cache is one slot *)

Slot(c) == <<c.reports, c.summary, c.lastFetched>>

EmptySlot == <<<<>>, NullSummary, Null>>

\* The slot a successful response with body b, processed at time t, leaves.
SlotOf(b, t) ==
  <<IF b.hasReports THEN b.reports ELSE <<>>,
    IF b.hasSummary THEN b.summary ELSE NullSummary,
    t>>

\* C25: reports, summary and lastFetched are all empty or all from one
\* successful response: they are empty together, and a step changes them only
\* by emptying all three or by replacing all three with the values of the
\* response whose completion that step processes, also while other fetches are
\* in flight.
C25_SingleSlotLastWriterWins ==
  /\ [](reportsCache.lastFetched = Null => Slot(reportsCache) = EmptySlot)
  /\ [][\/ Slot(reportsCache') = Slot(reportsCache)
        \/ Slot(reportsCache') = EmptySlot /\ last'.op = "clear"
        \/ /\ last'.op = "fetched"
           /\ pending' # pending
           /\ \E b \in Bodies(now) : Slot(reportsCache') = SlotOf(b, now)
           /\ reportsCache'.reports = last'.ret.reports
           /\ reportsCache'.summary = last'.ret.summary]_vars
  /\ [][(last'.op = "fetched" /\ pending' # pending)
          => reportsCache'.lastFetched = now]_vars

\* Two fetches overlap; the second to complete has replaced what the first
\* stored.
C25_Witness ==
  /\ last.op = "fetched"
  /\ fetchCount = 2
  /\ pending = {}
  /\ Slot(last.before) # EmptySlot
  /\ ~last.before.loading
  /\ Slot(reportsCache) # Slot(last.before)
  /\ reportsCache.reports = last.ret.reports
  /\ reportsCache.lastFetched = last.before.lastFetched

-----------------------------------------------------------------------------
(* Claims C28 and C29: clearCache and overlapping fetches *)

\* C28: a clear() issued while a fetch is in flight is not undone: the
\* completion of a fetch started before the clear does not repopulate the
\* cache. A get() that starts a fetch sets loading, so a fetch that completes
\* on the cleared cache (EMPTY, not loading) was started before the clear.
C28_ClearNotUndone ==
  (last.op = "fetched" /\ last.before = EmptyCache) => Slot(reportsCache) = EmptySlot

\* C29: loading is true exactly while a fetch started by get() has not yet
\* completed, also when two get() calls overlap or a clear() happens during a
\* fetch.
C29_LoadingTracksInFlight == reportsCache.loading <=> pending # {}

-----------------------------------------------------------------------------
(* CompareReports (unnamed/part_000): the page with its two dropdowns *)

MaxAvailable == 3   \* entries GET /api/reports answers the page with

NoSelection == 0    \* the value "" of the first option; runIds are 1, 2, ...

\* An entry of availableReports whose run has `passed` passed and `failed`
\* failed tests.
AvailableEntry(i, passed, failed) ==
  [runId |-> i,
   summary |-> [statistic |-> [total |-> passed + failed, passed |-> passed,
                               failed |-> failed, broken |-> 0, skipped |-> 0],
                totalFiles |-> passed + failed,
                time |-> [start |-> Num(100), stop |-> Num(200)]]]

\* The arrays data.reports can be: one entry per run prefix, so the runIds of
\* one answer are distinct.
AvailableLists ==
  UNION {{[i \in 1..n |-> AvailableEntry(i, p[i], f[i])] :
            p \in [1..n -> 0..1], f \in [1..n -> 0..1]} : n \in 0..MaxAvailable}

RunIds(reports) == {reports[i].runId : i \in 1..Len(reports)}

\* availableReports.find(r => r.runId === id), for an id that is found.
Find(reports, id) ==
  reports[CHOOSE i \in 1..Len(reports) :
            /\ reports[i].runId = id
            /\ \A j \in 1..(i - 1) : reports[j].runId # id]

\* Faulty variant: no option is ever disabled.
Options_allEnabled(reports, other) == {NoSelection} \cup RunIds(reports)

\* The values a dropdown lets the user choose: the first option and every run
\* but the one selected in the other dropdown, whose option is disabled.
Options(reports, other) == {NoSelection} \cup (RunIds(reports) \ {other})

\* The effect on [selectedReport1, selectedReport2, availableReports]:
\* generateComparison when both are selected and there are reports, which
\* returns without a change when one of them is not found.
UpdateComparison(c) ==
  IF c.selectedReport1 # NoSelection /\ c.selectedReport2 # NoSelection
       /\ Len(c.availableReports) > 0
  THEN IF c.selectedReport1 \in RunIds(c.availableReports)
            /\ c.selectedReport2 \in RunIds(c.availableReports)
       THEN [c EXCEPT !.comparisonData =
                        Comparison(Find(c.availableReports, c.selectedReport1),
                                   Find(c.availableReports, c.selectedReport2))]
       ELSE c
  ELSE [c EXCEPT !.comparisonData = NoComparison]

\* fetchAvailableReports after its await: the list is stored or the error is,
\* and isLoading is reset in either case.
fetchAvailableReports ==
  /\ cmp.pc = "page"
  /\ cmp.isLoading
  /\ \/ \E reports \in AvailableLists :
          cmp' = UpdateComparison([cmp EXCEPT !.availableReports = reports,
                                              !.isLoading = FALSE])
     \/ cmp' = [cmp EXCEPT !.error = "Failed to load available reports",
                           !.isLoading = FALSE]
  /\ UNCHANGED <<clientVars, serverVars, dl, auth>>

\* onChange of the first dropdown, with the effect that follows the render.
SelectReport1 ==
  /\ cmp.pc = "page"
  /\ ~cmp.isLoading
  /\ \E v \in Options(cmp.availableReports, cmp.selectedReport2) :
       /\ v # cmp.selectedReport1
       /\ cmp' = UpdateComparison([cmp EXCEPT !.selectedReport1 = v])
  /\ UNCHANGED <<clientVars, serverVars, dl, auth>>

\* onChange of the second dropdown, with the effect that follows the render.
SelectReport2 ==
  /\ cmp.pc = "page"
  /\ ~cmp.isLoading
  /\ \E v \in Options(cmp.availableReports, cmp.selectedReport1) :
       /\ v # cmp.selectedReport2
       /\ cmp' = UpdateComparison([cmp EXCEPT !.selectedReport2 = v])
  /\ UNCHANGED <<clientVars, serverVars, dl, auth>>

\* The page as mounted: the useState values, the fetch of the mount effect in
\* flight.
ComparePageInit ==
  /\ ClientInit
  /\ ServerIdle
  /\ dl = [pc |-> "idle"]
  /\ auth = [pc |-> "idle"]
  /\ cmp = [pc |-> "page", availableReports |-> <<>>,
            selectedReport1 |-> NoSelection, selectedReport2 |-> NoSelection,
            isLoading |-> TRUE, error |-> "", comparisonData |-> NoComparison]

ComparePageNext ==
  \/ fetchAvailableReports
  \/ SelectReport1
  \/ SelectReport2

SpecComparePage == ComparePageInit /\ [][ComparePageNext]_vars

-----------------------------------------------------------------------------
(* Claim C26: the two selections *)

-----------------------------------------------------------------------------
(* Dashboard (unnamed/part_000): the effect that loads the reports *)

\* useEffect(..., [getReports]) has to run: at mount, and after a render in
\* which getReports is a new function. getReports is rebuilt when
\* fetchAndCacheReports is, which is when reports, summary, lastFetched or
\* reports.length changed: after setReportsCache(newCache) of a successful
\* fetch, whose reports array is a new one. The loading and error updates
\* spread prev and rebuild nothing.
EffectDue == last.op \in {"none", "fetched"}

\* loadReports(): await getReports(), a rejection being logged only.
loadReports ==
  /\ path = "/dashboard"
  /\ EffectDue
  /\ Get(FALSE)

\* Time passes on the page shown; the effect of a render runs with its commit,
\* before the clock moves.
DashboardTick == ~EffectDue /\ Tick

\* The Dashboard just mounted for a logged-in user, on an empty cache.
DashboardInit ==
  /\ reportsCache = EmptyCache
  /\ now = StartMs
  /\ pending = {}
  /\ fetchCount = 0
  /\ token = "jwt"
  /\ path = "/dashboard"
  /\ loginPending = FALSE
  /\ showLogoutModal = FALSE
  /\ last = NoLast
  /\ ServerIdle
  /\ OthersIdle

\* No user action: the effect, the answers of the server, the clock.
DashboardNext ==
  \/ loadReports
  \/ FetchDone
  \/ DashboardTick

SpecDashboard == DashboardInit /\ [][DashboardNext]_vars

-----------------------------------------------------------------------------
(* Claim C27: loading the Dashboard *)

\* C27: after the Dashboard mounts, for every server outcome the fetch of the
\* mount is the only one started without user action unless the data has
\* turned stale: a fetch the page starts after another one has been started
\* finds data older than the window.
C27_DashboardLoadTerminates ==
  (last.op = "get" /\ last.started /\ last.fetches >= 1) =>
    /\ ~Falsy(last.before.lastFetched)
    /\ last.before.lastFetched < last.at - StaleWindowMs

-----------------------------------------------------------------------------
(* Claim C30: route protection *)

\* The step of handleLogout: the modal closes and the login page is opened
\* (handleCancelLogout closes the modal on the page it was opened on).
LogoutConfirmed == showLogoutModal /\ ~showLogoutModal' /\ path' = "/"

\* The step of handleSubmit that follows an answer of POST /login.
LoginAnswered == loginPending /\ ~loginPending'

\* C30: a protected page is shown only while a token is stored, and without a
\* token every protected route leads to the login page; a token is stored only
\* by the step that follows an answer of the login request, which then opens
\* the dashboard, and removed only by the confirmed logout; the confirmed
\* logout leaves no token and the login page.
C30_RouteProtection ==
  /\ [](/\ path \in ProtectedPages => token # NoToken
        /\ token = NoToken => \A p \in ProtectedPages : Route(p, token) = "/")
  /\ [][token' # token =>
          \/ token' # NoToken /\ LoginAnswered /\ path' = "/dashboard"
          \/ token' = NoToken /\ LogoutConfirmed]_vars
  /\ [][LogoutConfirmed => token' = NoToken /\ path' \notin ProtectedPages]_vars

\* The user has logged in, loaded the dashboard and confirmed the logout.
C30_Witness ==
  /\ last.op = "logout"
  /\ fetchCount >= 1
  /\ token = NoToken
  /\ path = "/"
  /\ ~showLogoutModal

====
